---- MODULE Spec2Model ----
(***************************************************************************)
(* The command-injection bridge of the mumax3 web GUI (engine/gui.go).     *)
(*                                                                         *)
(* Handler threads (one goroutine per HTTP request) run the callbacks      *)
(* registered in PrepareServer; the simulation thread drains the Inject    *)
(* queue between solver steps.  Every shared write of the source is one    *)
(* step of the thread that performs it, so every interleaving the Go       *)
(* scheduler can produce is a behaviour of Spec.                           *)
(***************************************************************************)
EXTENDS Integers, Sequences, FiniteSets, TLC

\* ------------------------------------------------------------------ bounds
MaxConsoleReqs == 3   \* requests of a run that uses the console
MaxMeshReqs    == 2   \* requests of a run that edits and sets the mesh and uses the console
MaxPollReqs    == 3   \* requests of a run that polls while long operations run
MaxBeatReqs    == 2   \* requests of a run that polls while the wall clock advances
MaxEventReqs   == 5   \* requests of a run that changes the displayed component and polls
MaxBrowseReqs  == 3   \* requests of a run that browses quantities and components and polls
MaxSteps       == 1   \* solver steps taken in one run
MaxClock       == 1   \* ticks of the wall clock in one run
MaxLongOps     == 1   \* long operations (SetBusy(true) .. SetBusy(false)) of one input script
MaxLiveReqs    == 2   \* requests of a run that is followed to its end

\* ------------------------------------------------------------- parameters
Handlers == {"h1", "h2"}                 \* concurrent request goroutines
Texts    == {"ok", "bad", "panic"}       \* console input: runs, does not compile, panics in tree.Eval
Quants   == {"m", "B_eff"}               \* GUI.Quants names offered by renderQuant
MeshArgs == {"valid", "invalid"}         \* a mesh box edit: SetMesh accepts it or panics on it

\* What the browser and the input script do in one run: the kinds of request
\* the browser sends, how many, and what the script makes the simulation
\* thread do besides draining the queue.
Workloads ==
    { [name |-> "console", kinds |-> {"cli"},
       max |-> MaxConsoleReqs, script |-> {}],
      [name |-> "mesh", kinds |-> {"cli", "meshbox", "setmesh"},
       max |-> MaxMeshReqs, script |-> {}],
      [name |-> "poll", kinds |-> {"refresh"},
       max |-> MaxPollReqs, script |-> {"step", "longop"}],
      [name |-> "heartbeat", kinds |-> {"refresh"},
       max |-> MaxBeatReqs, script |-> {"longop", "tick", "watch"}],
      [name |-> "display", kinds |-> {"renderComp", "refresh"},
       max |-> MaxEventReqs, script |-> {}],
      [name |-> "browse", kinds |-> {"renderQuant", "renderComp", "refresh"},
       max |-> MaxBrowseReqs, script |-> {"step"}] }

\* the same workloads, cut down to the requests of a run followed to its end
LiveWorkloads == {[w EXCEPT !.max = MaxLiveReqs] : w \in Workloads}

NoCmd    == [prod |-> "none", seq |-> 0, kind |-> "none", body |-> <<>>, wait |-> FALSE, text |-> ""]
NoShot   == [quant |-> "", comp |-> "", nsteps |-> "", display |-> "", started |-> 0, handled |-> 0]
NoReq    == "none"
Free     == "free"
Sim      == "sim"
Watch    == "watch"

MESHWARN   == "&#x26a0; Click to update mesh (may take some time)"
MeshUpToDate == "mesh up to date"

\* the fields one refresh snapshot publishes (gui.go:109-127)
SolverFields   == {"time", "dt", "lasterr", "maxerr", "mindt", "maxdt", "fixdt"}
SnapshotFields == {"nsteps"} \cup SolverFields \cup {"display", "memfree"}

VARIABLES
    Inject,             \* the command queue (chan func()), oldest first
    ready,              \* handlers whose InjectAndWait completion signal is pending
    simpc,              \* position of the simulation thread
    cur,                \* the command the simulation thread is executing
    rest,               \* statements of cur not yet executed
    wrote,              \* fields cur has published so far
    calls,              \* history: the collaborator calls cur has made, in order
    shot,               \* history: what cur read when it built the display identifier
    sbArg,              \* argument of the SetBusy call in progress
    NSteps,             \* Solver.NSteps
    Time,               \* engine.Time, in units of the time step
    executed,           \* history: the commands finished, in order of execution
    busy,               \* guistate.busy
    mutex,              \* owner of guistate.mutex
    eventCacheBreaker,  \* guistate.eventCacheBreaker
    keepalive,          \* keepalive
    keepalock,          \* owner of keepalock
    now,                \* the wall clock, time.Now()
    elem,               \* value of each GUI element (gui.Page)
    disabled,           \* disabled attribute of each GUI element
    pc,                 \* position of each handler thread
    req,                \* the kind of request each handler thread serves
    tmp,                \* the value a handler read from eventCacheBreaker
    cb0,                \* history: eventCacheBreaker when the handler's event began
    nev,                \* history: events received so far
    nsub,               \* commands each handler has submitted so far
    ninj,               \* commands the handler has submitted for the request it serves
    phase,              \* history: BusyState over the whole of the request served
    nreq,               \* requests received so far
    wpc,                \* position of the thread that watches the heartbeat
    seen,               \* the value KeepAlive() last returned to it
    sbAt,               \* history: the wall clock when SetBusy was last called
    nlong,              \* long operations begun so far
    load                \* the workload of this run

vars == <<Inject, ready, simpc, cur, rest, wrote, calls, shot, sbArg, NSteps, Time,
          executed, busy, mutex, eventCacheBreaker, keepalive, keepalock, now,
          elem, disabled, pc, req, tmp, cb0, nev, nsub, ninj, phase, nreq,
          wpc, seen, sbAt, nlong, load>>

simVars  == <<simpc, cur, rest, wrote, calls, shot, sbArg>>
lockVars == <<busy, mutex, keepalive, keepalock>>
hVars    == <<pc, req, tmp, cb0, nev, nsub, ninj, phase, nreq, load>>
watchVars == <<wpc, seen>>
opVars   == <<sbAt, nlong>>

\* ----------------------------------------------------------- gui.Page
ElemNames == {"cli", "setmeshwarn", "mesh", "renderQuant", "renderComp", "renderDoc"}
                 \cup SnapshotFields

\* GUI.Set(id, v)
Set(e, id, v) == [e EXCEPT ![id] = v]

\* World.Doc[quant]
Doc(q) == "doc of " \o q

\* fmt.Sprint of an int, fmt.Sprintf("%6e", t) of a time in units of the time step
Sprint(n) == ToString(n)
Sprintf6e(t) == ToString(t) \o ".000000e-12"


\* ------------------------------------------------------- the command queue
\* a queue that hands out the newest command first
SubmitInFront(q, c) == <<c>> \o q

\* Inject <- f : the command joins the queue behind those already pending
Submit(q, c) == Append(q, c)

\* the statements of each injected closure, in program order
Body(kind) ==
    CASE kind = "eval"     -> <<"eval">>
      [] kind = "setmesh"  -> <<"setmesh">>
      [] kind = "snapshot" -> <<"nsteps", "solver", "display">>

\* the closure a handler hands to the queue; seq numbers the producer's submissions
NewCmd(h, kind, wait, text) ==
    [prod |-> h, seq |-> nsub[h] + 1, kind |-> kind, body |-> Body(kind),
     wait |-> wait, text |-> text]

\* Eval(code): what the call does to its caller
EvalOutcome(text) ==
    CASE text = "bad"   -> "rejected"     \* Compile fails: LogOutput, nothing evaluated
      [] text = "panic" -> "fault"        \* LogInput, then tree.Eval panics
      [] OTHER          -> "ok"           \* LogInput, then tree.Eval returns

\* World.Compile(code): a tree, or an error description
Compile(code) ==
    IF code = "bad" THEN [tree |-> "", err |-> "syntax error in " \o code]
    ELSE [tree |-> "tree of " \o code, err |-> ""]

\* tree.Format(): the normalised source text of a compiled tree
Format(tree) == "formatted " \o tree

\* an Eval that evaluates the tree before it logs the input
EvalCallsEvalFirst(code) ==
    IF Compile(code).err = ""
    THEN << [fn |-> "tree.Eval", arg |-> Compile(code).tree],
            [fn |-> "LogInput", arg |-> Format(Compile(code).tree)] >>
    ELSE << [fn |-> "LogOutput", arg |-> code \o "\n" \o Compile(code).err] >>

\* Eval(code): the calls it makes on the logger and on the tree, in order
EvalCalls(code) ==
    IF Compile(code).err = ""
    THEN << [fn |-> "LogInput", arg |-> Format(Compile(code).tree)],
            [fn |-> "tree.Eval", arg |-> Compile(code).tree] >>
    ELSE << [fn |-> "LogOutput", arg |-> code \o "\n" \o Compile(code).err] >>

\* SetMesh(n, c, p) on the values of the mesh boxes
SetMeshOutcome(mesh) == IF mesh = "invalid" THEN "fault" ELSE "ok"

\* ------------------------------------------------------------------- Init
\* the state after PrepareServer, for a run of one of the workloads in loads
Start(loads) ==
    /\ Inject = <<>>
    /\ ready = {}
    /\ simpc = "loop"
    /\ cur = NoCmd
    /\ rest = <<>>
    /\ wrote = {}
    /\ calls = <<>>
    /\ shot = NoShot
    /\ sbArg = FALSE
    /\ NSteps = 0
    /\ Time = 0
    /\ executed = <<>>
    /\ busy = FALSE
    /\ mutex = Free
    /\ eventCacheBreaker = 0
    /\ keepalive = 0
    /\ keepalock = Free
    /\ now = 0
    /\ elem = [n \in ElemNames |->
                 CASE n = "renderQuant" -> "m"
                   [] n = "mesh"        -> "valid"
                   [] OTHER             -> ""]
    /\ disabled = [cli |-> FALSE, setmesh |-> TRUE]      \* gui.go:69
    /\ pc = [h \in Handlers |-> "idle"]
    /\ req = [h \in Handlers |-> NoReq]
    /\ tmp = [h \in Handlers |-> 0]
    /\ cb0 = [h \in Handlers |-> 0]
    /\ nev = 0
    /\ nsub = [h \in Handlers |-> 0]
    /\ ninj = [h \in Handlers |-> 0]
    /\ phase = [h \in Handlers |-> "none"]
    /\ nreq = 0
    /\ wpc = "idle"
    /\ seen = 0
    /\ sbAt = 0
    /\ nlong = 0
    /\ load \in loads

Init == Start(Workloads)

\* --------------------------------------------------------- request arrival
EventKinds == {"cli", "meshbox", "setmesh", "renderQuant", "renderComp"}
Comps      == {"", "x"}

Args(k) ==
    CASE k = "cli"         -> Texts
      [] k = "meshbox"     -> MeshArgs
      [] k = "renderQuant" -> Quants
      [] k = "renderComp"  -> Comps
      [] OTHER             -> {""}

\* the simulation thread is inside a SetBusy call
InSetBusy == simpc \in {"sb_lock", "sb_set", "sb_ka_lock", "sb_ka_set", "sb_unlock"}

\* BusyState as a request that starts now finds it
PhaseNow == IF InSetBusy THEN "mixed" ELSE IF busy THEN "busy" ELSE "idle"

\* the element an event carries a new value for
Target(k) == IF k = "meshbox" THEN "mesh" ELSE k

\* A browser event (PUT): the page stores the element's new value, then runs
\* the OnAnyEvent callback and the element's OnEvent callback.
ReceiveEvent(h, k, a) ==
    /\ pc[h] = "idle"
    /\ nreq < load.max
    /\ k \in EventKinds \cap load.kinds
    /\ nreq' = nreq + 1
    /\ req' = [req EXCEPT ![h] = k]
    /\ elem' = IF k = "setmesh" THEN elem ELSE Set(elem, Target(k), a)
    /\ pc' = [pc EXCEPT ![h] = "ev_read"]
    /\ cb0' = [cb0 EXCEPT ![h] = eventCacheBreaker]
    /\ nev' = nev + 1
    /\ UNCHANGED <<watchVars, opVars, Inject, ready, simVars, NSteps, Time, executed, lockVars,
                   eventCacheBreaker, now, disabled, tmp, nsub, ninj, phase, load>>

\* A refresh poll (POST): the page runs the OnUpdate callback.
ReceiveRefresh(h) ==
    /\ pc[h] = "idle"
    /\ nreq < load.max
    /\ "refresh" \in load.kinds
    /\ nreq' = nreq + 1
    /\ req' = [req EXCEPT ![h] = "refresh"]
    /\ phase' = [phase EXCEPT ![h] = PhaseNow]
    /\ pc' = [pc EXCEPT ![h] = "up_ka_lock"]
    /\ UNCHANGED <<watchVars, opVars, Inject, ready, simVars, NSteps, Time, executed, lockVars,
                   eventCacheBreaker, now, elem, disabled, tmp, cb0, nev, nsub, ninj, load>>

\* the callback has returned: the goroutine ends and its locals are gone
Return(h) ==
    /\ pc[h] = "done"
    /\ pc' = [pc EXCEPT ![h] = "idle"]
    /\ req' = [req EXCEPT ![h] = NoReq]
    /\ ninj' = [ninj EXCEPT ![h] = 0]
    /\ phase' = [phase EXCEPT ![h] = "none"]
    /\ UNCHANGED <<watchVars, opVars, Inject, ready, simVars, NSteps, Time, executed, lockVars,
                   eventCacheBreaker, now, elem, disabled, tmp, cb0, nev, nsub, nreq, load>>

\* ------------------------------------------------ OnAnyEvent (gui.go:53-55)
\* GUI.eventCacheBreaker++ holds no lock: a load, then a store
AnyEventLoad(h) ==
    /\ pc[h] = "ev_read"
    /\ tmp' = [tmp EXCEPT ![h] = eventCacheBreaker]
    /\ pc' = [pc EXCEPT ![h] = "ev_write"]
    /\ UNCHANGED <<watchVars, opVars, Inject, ready, simVars, NSteps, Time, executed, lockVars,
                   eventCacheBreaker, now, elem, disabled, req, cb0, nev, nsub,
                   ninj, phase, nreq, load>>

\* where the element's own callback starts
OnEventEntry(k) ==
    CASE k = "cli"         -> "cli_inject"
      [] k = "meshbox"     -> "wm_enable"
      [] k = "setmesh"     -> "sm_disable"
      [] k = "renderQuant" -> "rq_doc"
      [] OTHER             -> "done"          \* renderComp has no callback

AnyEventStore(h) ==
    /\ pc[h] = "ev_write"
    /\ eventCacheBreaker' = tmp[h] + 1
    /\ tmp' = [tmp EXCEPT ![h] = 0]
    /\ cb0' = [cb0 EXCEPT ![h] = 0]
    /\ pc' = [pc EXCEPT ![h] = OnEventEntry(req[h])]
    /\ UNCHANGED <<watchVars, opVars, Inject, ready, simVars, NSteps, Time, executed, lockVars,
                   now, elem, disabled, req, nev, nsub, ninj, phase, nreq, load>>


\* ------------------------------------------------- console (gui.go:62-66)
\* a handler that sends its closure twice
CliInjectTwice(h) ==
    /\ pc[h] = "cli_inject"
    /\ Inject' = Submit(Submit(Inject, NewCmd(h, "eval", FALSE, elem["cli"])),
                        NewCmd(h, "eval", FALSE, elem["cli"]))
    /\ nsub' = [nsub EXCEPT ![h] = @ + 1]
    /\ ninj' = [ninj EXCEPT ![h] = @ + 1]
    /\ pc' = [pc EXCEPT ![h] = "cli_clear"]
    /\ UNCHANGED <<watchVars, opVars, ready, simVars, NSteps, Time, executed, lockVars,
                   eventCacheBreaker, now, elem, disabled, req, tmp, cb0, nev, phase, nreq, load>>

\* cmd := GUI.StringValue("cli"); Inject <- func() { Eval(cmd) }
CliInject(h) ==
    /\ pc[h] = "cli_inject"
    /\ Inject' = Submit(Inject, NewCmd(h, "eval", FALSE, elem["cli"]))
    /\ nsub' = [nsub EXCEPT ![h] = @ + 1]
    /\ ninj' = [ninj EXCEPT ![h] = @ + 1]
    /\ pc' = [pc EXCEPT ![h] = "cli_clear"]
    /\ UNCHANGED <<watchVars, opVars, ready, simVars, NSteps, Time, executed, lockVars,
                   eventCacheBreaker, now, elem, disabled, req, tmp, cb0, nev, phase, nreq, load>>

\* GUI.Set("cli", "")
CliClear(h) ==
    /\ pc[h] = "cli_clear"
    /\ elem' = Set(elem, "cli", "")
    /\ pc' = [pc EXCEPT ![h] = "done"]
    /\ UNCHANGED <<watchVars, opVars, Inject, ready, simVars, NSteps, Time, executed, lockVars,
                   eventCacheBreaker, now, disabled, req, tmp, cb0, nev, nsub, ninj,
                   phase, nreq, load>>

\* ---------------------------------------------------- mesh (gui.go:68-89)
\* a warnmesh that applies the edited mesh at once
WarnMeshApply(h) ==
    /\ pc[h] = "wm_enable"
    /\ disabled' = [disabled EXCEPT !.setmesh = FALSE]
    /\ Inject' = Submit(Inject, NewCmd(h, "setmesh", FALSE, ""))
    /\ nsub' = [nsub EXCEPT ![h] = @ + 1]
    /\ ninj' = [ninj EXCEPT ![h] = @ + 1]
    /\ pc' = [pc EXCEPT ![h] = "wm_warn"]
    /\ UNCHANGED <<watchVars, opVars, ready, simVars, NSteps, Time, executed, lockVars,
                   eventCacheBreaker, now, elem, req, tmp, cb0, nev, phase, nreq, load>>

\* warnmesh: GUI.Disable("setmesh", false)
WarnMeshEnable(h) ==
    /\ pc[h] = "wm_enable"
    /\ disabled' = [disabled EXCEPT !.setmesh = FALSE]
    /\ pc' = [pc EXCEPT ![h] = "wm_warn"]
    /\ UNCHANGED <<watchVars, opVars, Inject, ready, simVars, NSteps, Time, executed, lockVars,
                   eventCacheBreaker, now, elem, req, tmp, cb0, nev, nsub, ninj, phase, nreq, load>>

\* warnmesh: GUI.Set("setmeshwarn", MESHWARN)
WarnMeshSet(h) ==
    /\ pc[h] = "wm_warn"
    /\ elem' = Set(elem, "setmeshwarn", MESHWARN)
    /\ pc' = [pc EXCEPT ![h] = "done"]
    /\ UNCHANGED <<watchVars, opVars, Inject, ready, simVars, NSteps, Time, executed, lockVars,
                   eventCacheBreaker, now, disabled, req, tmp, cb0, nev, nsub, ninj,
                   phase, nreq, load>>

\* setmesh: GUI.Disable("setmesh", true)
SetMeshDisable(h) ==
    /\ pc[h] = "sm_disable"
    /\ disabled' = [disabled EXCEPT !.setmesh = TRUE]
    /\ pc' = [pc EXCEPT ![h] = "sm_inject"]
    /\ UNCHANGED <<watchVars, opVars, Inject, ready, simVars, NSteps, Time, executed, lockVars,
                   eventCacheBreaker, now, elem, req, tmp, cb0, nev, nsub, ninj, phase, nreq, load>>

\* a setmesh handler that uses Inject and does not wait
SetMeshInjectNoWait(h) ==
    /\ pc[h] = "sm_inject"
    /\ Inject' = Submit(Inject, NewCmd(h, "setmesh", FALSE, ""))
    /\ nsub' = [nsub EXCEPT ![h] = @ + 1]
    /\ ninj' = [ninj EXCEPT ![h] = @ + 1]
    /\ pc' = [pc EXCEPT ![h] = "sm_set"]
    /\ UNCHANGED <<watchVars, opVars, ready, simVars, NSteps, Time, executed, lockVars,
                   eventCacheBreaker, now, elem, disabled, req, tmp, cb0, nev, phase, nreq, load>>

\* setmesh: InjectAndWait(func() { ... SetMesh(...) }), up to the wait
SetMeshInject(h) ==
    /\ pc[h] = "sm_inject"
    /\ Inject' = Submit(Inject, NewCmd(h, "setmesh", TRUE, ""))
    /\ nsub' = [nsub EXCEPT ![h] = @ + 1]
    /\ ninj' = [ninj EXCEPT ![h] = @ + 1]
    /\ pc' = [pc EXCEPT ![h] = "sm_wait"]
    /\ UNCHANGED <<watchVars, opVars, ready, simVars, NSteps, Time, executed, lockVars,
                   eventCacheBreaker, now, elem, disabled, req, tmp, cb0, nev, phase, nreq, load>>

\* InjectAndWait: <-ready, the handler resumes once its command has signalled
AwaitReady(h) ==
    /\ pc[h] \in {"sm_wait", "up_wait"}
    /\ h \in ready
    /\ ready' = ready \ {h}
    /\ pc' = [pc EXCEPT ![h] = IF pc[h] = "sm_wait" THEN "sm_set" ELSE "done"]
    /\ UNCHANGED <<watchVars, opVars, Inject, simVars, NSteps, Time, executed, lockVars,
                   eventCacheBreaker, now, elem, disabled, req, tmp, cb0, nev, nsub, ninj,
                   phase, nreq, load>>

\* setmesh: GUI.Set("setmeshwarn", "mesh up to date")
SetMeshUpToDate(h) ==
    /\ pc[h] = "sm_set"
    /\ elem' = Set(elem, "setmeshwarn", MeshUpToDate)
    /\ pc' = [pc EXCEPT ![h] = "done"]
    /\ UNCHANGED <<watchVars, opVars, Inject, ready, simVars, NSteps, Time, executed, lockVars,
                   eventCacheBreaker, now, disabled, req, tmp, cb0, nev, nsub, ninj,
                   phase, nreq, load>>

\* --------------------------------------------- renderQuant (gui.go:91-93)
RenderDoc(h) ==
    /\ pc[h] = "rq_doc"
    /\ elem' = Set(elem, "renderDoc", Doc(elem["renderQuant"]))
    /\ pc' = [pc EXCEPT ![h] = "done"]
    /\ UNCHANGED <<watchVars, opVars, Inject, ready, simVars, NSteps, Time, executed, lockVars,
                   eventCacheBreaker, now, disabled, req, tmp, cb0, nev, nsub, ninj,
                   phase, nreq, load>>

\* ------------------------------------------------ OnUpdate (gui.go:95-129)
\* updateKeepAlive(): keepalock.Lock()
UpdateKeepAliveLock(h) ==
    /\ pc[h] = "up_ka_lock"
    /\ keepalock = Free
    /\ keepalock' = h
    /\ pc' = [pc EXCEPT ![h] = "up_ka_set"]
    /\ UNCHANGED <<watchVars, opVars, Inject, ready, simVars, NSteps, Time, executed, busy, mutex,
                   keepalive, eventCacheBreaker, now, elem, disabled, req, tmp, cb0, nev,
                   nsub, ninj, phase, nreq, load>>

\* an updateKeepAlive that stores the time the program started
UpdateKeepAliveStale(h) ==
    /\ pc[h] = "up_ka_set"
    /\ keepalive' = 0
    /\ keepalock' = Free
    /\ pc' = [pc EXCEPT ![h] = "up_busy_lock"]
    /\ UNCHANGED <<watchVars, opVars, Inject, ready, simVars, NSteps, Time, executed, busy, mutex,
                   eventCacheBreaker, now, elem, disabled, req, tmp, cb0, nev, nsub, ninj,
                   phase, nreq, load>>

\* an updateKeepAlive that takes g.mutex, as Busy() does, while it holds keepalock
UpdateKeepAliveUnderMutex(h) ==
    /\ pc[h] = "up_ka_set"
    /\ mutex = Free
    /\ keepalive' = now
    /\ keepalock' = Free
    /\ pc' = [pc EXCEPT ![h] = "up_busy_lock"]
    /\ UNCHANGED <<watchVars, opVars, Inject, ready, simVars, NSteps, Time, executed, busy, mutex,
                   eventCacheBreaker, now, elem, disabled, req, tmp, cb0, nev, nsub, ninj,
                   phase, nreq, load>>

\* updateKeepAlive(): keepalive = time.Now(); keepalock.Unlock()
UpdateKeepAliveSet(h) ==
    /\ pc[h] = "up_ka_set"
    /\ keepalive' = now
    /\ keepalock' = Free
    /\ pc' = [pc EXCEPT ![h] = "up_busy_lock"]
    /\ UNCHANGED <<watchVars, opVars, Inject, ready, simVars, NSteps, Time, executed, busy, mutex,
                   eventCacheBreaker, now, elem, disabled, req, tmp, cb0, nev, nsub, ninj,
                   phase, nreq, load>>

\* GUI.Busy(): g.mutex.Lock()
BusyLock(h) ==
    /\ pc[h] = "up_busy_lock"
    /\ mutex = Free
    /\ mutex' = h
    /\ pc' = [pc EXCEPT ![h] = "up_busy_read"]
    /\ UNCHANGED <<watchVars, opVars, Inject, ready, simVars, NSteps, Time, executed, busy,
                   keepalive, keepalock, eventCacheBreaker, now, elem, disabled,
                   req, tmp, cb0, nev, nsub, ninj, phase, nreq, load>>

\* an OnUpdate that goes on whatever GUI.Busy() returns
BusyReadIgnored(h) ==
    /\ pc[h] = "up_busy_read"
    /\ mutex' = Free
    /\ pc' = [pc EXCEPT ![h] = "up_enable"]
    /\ UNCHANGED <<watchVars, opVars, Inject, ready, simVars, NSteps, Time, executed, busy,
                   keepalive, keepalock, eventCacheBreaker, now, elem, disabled,
                   req, tmp, cb0, nev, nsub, ninj, phase, nreq, load>>

\* GUI.Busy(): return g.busy; g.mutex.Unlock(); and the branch on the result
BusyRead(h) ==
    /\ pc[h] = "up_busy_read"
    /\ mutex' = Free
    /\ pc' = [pc EXCEPT ![h] = IF busy THEN "done" ELSE "up_enable"]
    /\ UNCHANGED <<watchVars, opVars, Inject, ready, simVars, NSteps, Time, executed, busy,
                   keepalive, keepalock, eventCacheBreaker, now, elem, disabled,
                   req, tmp, cb0, nev, nsub, ninj, phase, nreq, load>>

\* g.disableControls(false)
EnableControls(h) ==
    /\ pc[h] = "up_enable"
    /\ disabled' = [disabled EXCEPT !.cli = FALSE]
    /\ pc' = [pc EXCEPT ![h] = "up_inject"]
    /\ UNCHANGED <<watchVars, opVars, Inject, ready, simVars, NSteps, Time, executed, lockVars,
                   eventCacheBreaker, now, elem, req, tmp, cb0, nev, nsub, ninj, phase, nreq, load>>

\* an OnUpdate that reads the step count in one command and the rest in another
UpdateInjectSplit(h) ==
    /\ pc[h] = "up_inject"
    /\ Inject' = Submit(Submit(Inject,
                     [NewCmd(h, "snapshot", FALSE, "") EXCEPT !.body = <<"nsteps">>]),
                     [NewCmd(h, "snapshot", TRUE, "") EXCEPT
                          !.body = <<"solver", "display">>, !.seq = nsub[h] + 2])
    /\ nsub' = [nsub EXCEPT ![h] = @ + 2]
    /\ ninj' = [ninj EXCEPT ![h] = @ + 2]
    /\ pc' = [pc EXCEPT ![h] = "up_wait"]
    /\ UNCHANGED <<watchVars, opVars, ready, simVars, NSteps, Time, executed, lockVars,
                   eventCacheBreaker, now, elem, disabled, req, tmp, cb0, nev,
                   phase, nreq, load>>

\* InjectAndWait(func() { ...the snapshot... }), up to the wait
UpdateInject(h) ==
    /\ pc[h] = "up_inject"
    /\ Inject' = Submit(Inject, NewCmd(h, "snapshot", TRUE, ""))
    /\ nsub' = [nsub EXCEPT ![h] = @ + 1]
    /\ ninj' = [ninj EXCEPT ![h] = @ + 1]
    /\ pc' = [pc EXCEPT ![h] = "up_wait"]
    /\ UNCHANGED <<watchVars, opVars, ready, simVars, NSteps, Time, executed, lockVars,
                   eventCacheBreaker, now, elem, disabled, req, tmp, cb0, nev, phase, nreq, load>>


\* ------------------------------------------------- the simulation thread
\* a loop that takes the newest pending command and discards the older ones
ReceiveNewestOnly ==
    /\ simpc = "loop"
    /\ Inject # <<>>
    /\ cur' = Inject[Len(Inject)]
    /\ Inject' = <<>>
    /\ rest' = Inject[Len(Inject)].body
    /\ wrote' = {}
    /\ calls' = <<>>
    /\ simpc' = "run"
    /\ UNCHANGED <<watchVars, opVars, ready, shot, sbArg, NSteps, Time, executed, lockVars,
                   eventCacheBreaker, now, elem, disabled, hVars>>

\* the loop takes the oldest pending command off the queue
Receive ==
    /\ simpc = "loop"
    /\ Inject # <<>>
    /\ cur' = Head(Inject)
    /\ Inject' = Tail(Inject)
    /\ rest' = Head(Inject).body
    /\ wrote' = {}
    /\ calls' = <<>>
    /\ simpc' = "run"
    /\ UNCHANGED <<watchVars, opVars, ready, shot, sbArg, NSteps, Time, executed, lockVars,
                   eventCacheBreaker, now, elem, disabled, hVars>>

\* the loop advances the solver by one step
Step ==
    /\ simpc = "loop"
    /\ "step" \in load.script
    /\ NSteps < MaxSteps
    /\ NSteps' = NSteps + 1
    /\ Time' = Time + 1
    /\ UNCHANGED <<watchVars, opVars, Inject, ready, simVars, executed, lockVars,
                   eventCacheBreaker, now, elem, disabled, hVars>>

\* position after the statement at the head of rest
AfterStmt == IF Len(rest) = 1 THEN "ret_ok" ELSE "run"

\* func() { Eval(cmd) } (gui.go:64, 201-209)
RunEval ==
    /\ simpc = "run"
    /\ Head(rest) = "eval"
    /\ rest' = Tail(rest)
    /\ simpc' = "ret_" \o EvalOutcome(cur.text)
    /\ calls' = calls \o EvalCalls(cur.text)
    /\ UNCHANGED <<watchVars, opVars, Inject, ready, cur, wrote, shot, sbArg, NSteps, Time, executed,
                   lockVars, eventCacheBreaker, now, elem, disabled, hVars>>

\* func() { n := ...; c := ...; p := ...; SetMesh(...) } (gui.go:82-87)
RunSetMesh ==
    /\ simpc = "run"
    /\ Head(rest) = "setmesh"
    /\ rest' = Tail(rest)
    /\ simpc' = "ret_" \o SetMeshOutcome(elem["mesh"])
    /\ UNCHANGED <<watchVars, opVars, Inject, ready, cur, wrote, calls, shot, sbArg, NSteps, Time, executed,
                   lockVars, eventCacheBreaker, now, elem, disabled, hVars>>

\* GUI.Set("nsteps", Solver.NSteps) (gui.go:109)
RunNSteps ==
    /\ simpc = "run"
    /\ Head(rest) = "nsteps"
    /\ elem' = Set(elem, "nsteps", Sprint(NSteps))
    /\ wrote' = wrote \cup {"nsteps"}
    /\ rest' = Tail(rest)
    /\ simpc' = AfterStmt
    /\ UNCHANGED <<watchVars, opVars, Inject, ready, cur, calls, shot, sbArg, NSteps, Time, executed, lockVars,
                   eventCacheBreaker, now, disabled, hVars>>

\* the solver values as of solver step n
SolverValues(n, t) ==
    [f \in SolverFields |->
        CASE f = "time"    -> Sprintf6e(t)
          [] f = "dt"      -> "dt@" \o Sprint(n)
          [] f = "lasterr" -> "err@" \o Sprint(n)
          [] OTHER         -> "set"]

\* GUI.Set("time", ...) ... GUI.Set("fixdt", Solver.FixDt) (gui.go:110-116)
RunSolver ==
    /\ simpc = "run"
    /\ Head(rest) = "solver"
    /\ elem' = [n \in ElemNames |->
                  IF n \in SolverFields THEN SolverValues(NSteps, Time)[n] ELSE elem[n]]
    /\ wrote' = wrote \cup SolverFields
    /\ rest' = Tail(rest)
    /\ simpc' = AfterStmt
    /\ UNCHANGED <<watchVars, opVars, Inject, ready, cur, calls, shot, sbArg, NSteps, Time, executed, lockVars,
                   eventCacheBreaker, now, disabled, hVars>>

\* history: the events whose callbacks have returned
EventsHandled == nev - Cardinality({h \in Handlers : req[h] \in EventKinds /\ pc[h] # "done"})

\* "/render/"+quant+"/"+comp+"?"+nsteps+"_"+fmt.Sprint(cb) (gui.go:119-122)
DisplayURL(quant, comp, nsteps, cb) ==
    "/render/" \o quant \o "/" \o comp \o "?" \o nsteps \o "_" \o Sprint(cb)

\* GUI.Set("display", ...); GUI.Set("memfree", memfree) (gui.go:118-127)
RunDisplay ==
    /\ simpc = "run"
    /\ Head(rest) = "display"
    /\ elem' = [elem EXCEPT
                  !["display"] = DisplayURL(elem["renderQuant"], elem["renderComp"],
                                            elem["nsteps"], eventCacheBreaker),
                  !["memfree"] = "MB"]
    /\ wrote' = wrote \cup {"display", "memfree"}
    /\ shot' = [quant |-> elem["renderQuant"], comp |-> elem["renderComp"],
                nsteps |-> elem["nsteps"], display |-> elem'["display"],
                started |-> nev, handled |-> EventsHandled]
    /\ rest' = Tail(rest)
    /\ simpc' = AfterStmt
    /\ UNCHANGED <<watchVars, opVars, Inject, ready, cur, calls, sbArg, NSteps, Time, executed, lockVars,
                   eventCacheBreaker, now, disabled, hVars>>

\* what the guarded frame around a command reports for it
Outcome == IF simpc = "ret_fault" THEN "fault"
           ELSE IF simpc = "ret_rejected" THEN "rejected" ELSE "ok"

\* a frame that signals the waiter only when the command returns normally
FinishSignalOnSuccess ==
    /\ simpc \in {"ret_ok", "ret_rejected", "ret_fault"}
    /\ executed' = Append(executed, [cmd |-> cur, out |-> Outcome, wrote |-> wrote, calls |-> calls,
                                     shot |-> shot])
    /\ ready' = IF cur.wait /\ simpc # "ret_fault" THEN ready \cup {cur.prod} ELSE ready
    /\ cur' = NoCmd
    /\ rest' = <<>>
    /\ wrote' = {}
    /\ calls' = <<>>
    /\ shot' = NoShot
    /\ simpc' = "loop"
    /\ UNCHANGED <<watchVars, opVars, Inject, sbArg, NSteps, Time, lockVars, eventCacheBreaker, now,
                   elem, disabled, hVars>>

\* a frame that lets a fault end the simulation thread
FinishUnguarded ==
    /\ simpc \in {"ret_ok", "ret_rejected", "ret_fault"}
    /\ executed' = Append(executed, [cmd |-> cur, out |-> Outcome, wrote |-> wrote, calls |-> calls,
                                     shot |-> shot])
    /\ ready' = IF cur.wait /\ simpc # "ret_fault" THEN ready \cup {cur.prod} ELSE ready
    /\ cur' = NoCmd
    /\ rest' = <<>>
    /\ wrote' = {}
    /\ calls' = <<>>
    /\ shot' = NoShot
    /\ simpc' = IF simpc = "ret_fault" THEN "dead" ELSE "loop"
    /\ UNCHANGED <<watchVars, opVars, Inject, sbArg, NSteps, Time, lockVars, eventCacheBreaker, now,
                   elem, disabled, hVars>>

\* The guarded frame around a dequeued command: a fault is contained, the
\* waiter of an InjectAndWait is signalled, and the loop goes on.
Finish ==
    /\ simpc \in {"ret_ok", "ret_rejected", "ret_fault"}
    /\ executed' = Append(executed, [cmd |-> cur, out |-> Outcome, wrote |-> wrote, calls |-> calls,
                                     shot |-> shot])
    /\ ready' = IF cur.wait THEN ready \cup {cur.prod} ELSE ready
    /\ cur' = NoCmd
    /\ rest' = <<>>
    /\ wrote' = {}
    /\ calls' = <<>>
    /\ shot' = NoShot
    /\ simpc' = "loop"
    /\ UNCHANGED <<watchVars, opVars, Inject, sbArg, NSteps, Time, lockVars, eventCacheBreaker, now,
                   elem, disabled, hVars>>

\* ------------------------------------------------ SetBusy (gui.go:183-193)
\* requests in progress see BusyState change under them
Disturbed == [h \in Handlers |-> IF pc[h] = "done" THEN phase[h]
                                  ELSE IF phase[h] = "none" THEN "none" ELSE "mixed"]

\* a long operation (kernel initialisation) brackets itself: SetBusy(true)
BeginLongOp ==
    /\ simpc = "loop"
    /\ "longop" \in load.script
    /\ nlong < MaxLongOps
    /\ nlong' = nlong + 1
    /\ sbArg' = TRUE
    /\ sbAt' = now
    /\ simpc' = "sb_lock"
    /\ phase' = Disturbed
    /\ UNCHANGED <<watchVars, Inject, ready, cur, rest, wrote, calls, shot, NSteps, Time, executed,
                   lockVars, eventCacheBreaker, now, elem, disabled, pc, req,
                   tmp, cb0, nev, nsub, ninj, nreq, load>>

\* the long operation is over: SetBusy(false)
EndLongOp ==
    /\ simpc = "work"
    /\ sbArg' = FALSE
    /\ sbAt' = now
    /\ simpc' = "sb_lock"
    /\ phase' = Disturbed
    /\ UNCHANGED <<watchVars, nlong, Inject, ready, cur, rest, wrote, calls, shot, NSteps, Time, executed,
                   lockVars, eventCacheBreaker, now, elem, disabled, pc, req,
                   tmp, cb0, nev, nsub, ninj, nreq, load>>

\* g.mutex.Lock()
SetBusyLock ==
    /\ simpc = "sb_lock"
    /\ mutex = Free
    /\ mutex' = Sim
    /\ simpc' = "sb_set"
    /\ UNCHANGED <<watchVars, opVars, Inject, ready, cur, rest, wrote, calls, shot, sbArg, NSteps, Time, executed,
                   busy, keepalive, keepalock, eventCacheBreaker, now, elem,
                   disabled, hVars>>

\* g.busy = busy; g.disableControls(busy)
SetBusySet ==
    /\ simpc = "sb_set"
    /\ busy' = sbArg
    /\ disabled' = [disabled EXCEPT !.cli = sbArg]
    /\ simpc' = "sb_ka_lock"
    /\ UNCHANGED <<watchVars, opVars, Inject, ready, cur, rest, wrote, calls, shot, sbArg, NSteps, Time, executed,
                   mutex, keepalive, keepalock, eventCacheBreaker, now, elem,
                   hVars>>

\* updateKeepAlive(): keepalock.Lock(), with g.mutex held
SetBusyKeepAliveLock ==
    /\ simpc = "sb_ka_lock"
    /\ keepalock = Free
    /\ keepalock' = Sim
    /\ simpc' = "sb_ka_set"
    /\ UNCHANGED <<watchVars, opVars, Inject, ready, cur, rest, wrote, calls, shot, sbArg, NSteps, Time, executed,
                   busy, mutex, keepalive, eventCacheBreaker, now, elem, disabled,
                   hVars>>

\* a SetBusy whose updateKeepAlive leaves the heartbeat as it was
SetBusyKeepAliveSkip ==
    /\ simpc = "sb_ka_set"
    /\ keepalock' = Free
    /\ simpc' = "sb_unlock"
    /\ UNCHANGED <<watchVars, opVars, Inject, ready, cur, rest, wrote, calls, shot, sbArg,
                   NSteps, Time, executed, busy, mutex, keepalive, eventCacheBreaker,
                   now, elem, disabled, hVars>>

\* updateKeepAlive(): keepalive = time.Now(); keepalock.Unlock()
SetBusyKeepAliveSet ==
    /\ simpc = "sb_ka_set"
    /\ keepalive' = now
    /\ keepalock' = Free
    /\ simpc' = "sb_unlock"
    /\ UNCHANGED <<watchVars, opVars, Inject, ready, cur, rest, wrote, calls, shot, sbArg, NSteps, Time, executed,
                   busy, mutex, eventCacheBreaker, now, elem, disabled, hVars>>

\* the deferred g.mutex.Unlock(); SetBusy returns
SetBusyUnlock ==
    /\ simpc = "sb_unlock"
    /\ mutex' = Free
    /\ simpc' = IF sbArg THEN "work" ELSE "loop"
    /\ UNCHANGED <<watchVars, opVars, Inject, ready, cur, rest, wrote, calls, shot, sbArg, NSteps, Time, executed,
                   busy, keepalive, keepalock, eventCacheBreaker, now, elem,
                   disabled, hVars>>

\* --------------------------------------------- KeepAlive (gui.go:467-471)
\* the thread that watches for a disconnected browser: keepalock.Lock()
KeepAliveLock ==
    /\ wpc = "idle"
    /\ "watch" \in load.script
    /\ keepalock = Free
    /\ keepalock' = Watch
    /\ wpc' = "ka_read"
    /\ UNCHANGED <<seen, opVars, Inject, ready, simVars, NSteps, Time, executed, busy,
                   mutex, keepalive, eventCacheBreaker, now, elem, disabled, hVars>>

\* return keepalive; keepalock.Unlock()
KeepAliveRead ==
    /\ wpc = "ka_read"
    /\ seen' = keepalive
    /\ keepalock' = Free
    /\ wpc' = "idle"
    /\ UNCHANGED <<opVars, Inject, ready, simVars, NSteps, Time, executed, busy,
                   mutex, keepalive, eventCacheBreaker, now, elem, disabled, hVars>>

\* ------------------------------------------------------------ environment
\* the wall clock advances
Tick ==
    /\ "tick" \in load.script
    /\ now < MaxClock
    /\ now' = now + 1
    /\ UNCHANGED <<watchVars, opVars, Inject, ready, simVars, NSteps, Time, executed, lockVars,
                   eventCacheBreaker, elem, disabled, hVars>>

\* --------------------------------------------------------- specification
HandlerStep(h) ==
    \/ \E k \in EventKinds : \E a \in Args(k) : ReceiveEvent(h, k, a)
    \/ ReceiveRefresh(h)
    \/ Return(h)
    \/ AnyEventLoad(h)
    \/ AnyEventStore(h)
    \/ CliInject(h)
    \/ CliClear(h)
    \/ WarnMeshEnable(h)
    \/ WarnMeshSet(h)
    \/ SetMeshDisable(h)
    \/ SetMeshInject(h)
    \/ AwaitReady(h)
    \/ SetMeshUpToDate(h)
    \/ RenderDoc(h)
    \/ UpdateKeepAliveLock(h)
    \/ UpdateKeepAliveSet(h)
    \/ BusyLock(h)
    \/ BusyRead(h)
    \/ EnableControls(h)
    \/ UpdateInject(h)

SimStep ==
    \/ Receive
    \/ Step
    \/ RunEval
    \/ RunSetMesh
    \/ RunNSteps
    \/ RunSolver
    \/ RunDisplay
    \/ Finish
    \/ BeginLongOp
    \/ EndLongOp
    \/ SetBusyLock
    \/ SetBusySet
    \/ SetBusyKeepAliveLock
    \/ SetBusyKeepAliveSet
    \/ SetBusyUnlock

WatchStep == KeepAliveLock \/ KeepAliveRead

Next == (\E h \in Handlers : HandlerStep(h)) \/ SimStep \/ WatchStep \/ Tick

Spec == Init /\ [][Next]_vars

\* the steps by which the simulation thread serves the queue
Drain == Receive \/ RunEval \/ RunSetMesh \/ RunNSteps \/ RunSolver \/ RunDisplay \/ Finish

\* the steps by which a long operation and its SetBusy calls come to their end
LongOpRun ==
    \/ EndLongOp
    \/ SetBusyLock
    \/ SetBusySet
    \/ SetBusyKeepAliveLock
    \/ SetBusyKeepAliveSet
    \/ SetBusyUnlock

\* the steps of a request goroutine once the request has arrived
HandlerRun(h) ==
    \/ Return(h)
    \/ AnyEventLoad(h)
    \/ AnyEventStore(h)
    \/ CliInject(h)
    \/ CliClear(h)
    \/ WarnMeshEnable(h)
    \/ WarnMeshSet(h)
    \/ SetMeshDisable(h)
    \/ SetMeshInject(h)
    \/ AwaitReady(h)
    \/ SetMeshUpToDate(h)
    \/ RenderDoc(h)
    \/ UpdateKeepAliveLock(h)
    \/ UpdateKeepAliveSet(h)
    \/ BusyLock(h)
    \/ BusyRead(h)
    \/ EnableControls(h)
    \/ UpdateInject(h)

\* The simulation thread keeps serving the queue, every command and every long
\* operation terminates, and the Go scheduler runs every goroutine that can
\* run.  A goroutine blocked in Lock() is not passed over for ever by later
\* callers of the same sync.Mutex, hence the strong fairness of the steps that
\* take a lock.  Requests, solver steps, long operations, clock ticks and new
\* KeepAlive calls may stop at any time.
FairSpec ==
    /\ Start(LiveWorkloads)
    /\ [][Next]_vars
    /\ WF_vars(Drain)
    /\ SF_vars(LongOpRun)
    /\ WF_vars(KeepAliveRead)
    /\ \A h \in Handlers : SF_vars(HandlerRun(h))


\* =================================================================== claims
Idx == 1..Len(executed)

\* the command numbered n of producer h has been executed to its end
Finished(h, n) == \E i \in Idx : executed[i].cmd.prod = h /\ executed[i].cmd.seq = n

\* C1: the fire-and-forget commands of one producer are executed in the order
\* that producer submitted them, whatever the other producers submit.
C1_PerProducerFifo ==
    \A i, j \in Idx :
        ( /\ i < j
          /\ executed[i].cmd.prod = executed[j].cmd.prod
          /\ ~executed[i].cmd.wait
          /\ ~executed[j].cmd.wait )
        => executed[i].cmd.seq < executed[j].cmd.seq

\* two console commands of one producer were executed with a command of
\* another producer between them
C1_Witness ==
    \E i, j, k \in Idx :
        /\ i < k /\ k < j
        /\ executed[i].cmd.prod = executed[j].cmd.prod
        /\ executed[k].cmd.prod # executed[i].cmd.prod
        /\ executed[i].cmd.kind = "eval"
        /\ executed[j].cmd.kind = "eval"

Drained == Inject = <<>> /\ cur = NoCmd

\* C2: no command is executed more than once, only submitted commands are
\* executed, and once the queue is drained every submitted command has been
\* executed.
C2_ExactlyOnce ==
    /\ \A i, j \in Idx :
           i # j => <<executed[i].cmd.prod, executed[i].cmd.seq>>
                        # <<executed[j].cmd.prod, executed[j].cmd.seq>>
    /\ \A i \in Idx : executed[i].cmd.seq \in 1..nsub[executed[i].cmd.prod]
    /\ Drained => \A h \in Handlers : \A n \in 1..nsub[h] : Finished(h, n)

\* the queue is drained after a Submit and a SubmitAndWait of different
\* producers were both in it
C2_Witness ==
    /\ Drained
    /\ \E i, j \in Idx :
           /\ executed[i].cmd.wait
           /\ ~executed[j].cmd.wait
           /\ executed[i].cmd.prod # executed[j].cmd.prod

\* C3: a handler is past its InjectAndWait only when the command it injected
\* has been executed to its end; the setmesh handler is about to write "mesh
\* up to date" only then, whether SetMesh returned or panicked.
C3_WaitReturnsAfterCompletion ==
    \A h \in Handlers :
        /\ pc[h] = "sm_set" => Finished(h, nsub[h])
        /\ (pc[h] = "done" /\ req[h] \in {"setmesh", "refresh"} /\ ninj[h] > 0)
               => Finished(h, nsub[h])

\* the setmesh handler is about to write "mesh up to date" after a SetMesh
\* that panicked
C3_Witness ==
    \E h \in Handlers : \E i \in Idx :
        /\ pc[h] = "sm_set"
        /\ executed[i].cmd.prod = h
        /\ executed[i].cmd.seq = nsub[h]
        /\ executed[i].out = "fault"

\* C4: a handler waiting in InjectAndWait for a command that has been executed
\* to its end, by a fault or not, has its completion signal pending and can
\* take its next step: it is not blocked.
C4_WaiterReleased ==
    \A h \in Handlers :
        (pc[h] \in {"sm_wait", "up_wait"} /\ Finished(h, nsub[h]))
            => (h \in ready /\ ENABLED AwaitReady(h))

\* a handler waits for a command that faulted, and its signal is pending
C4_Witness ==
    \E h \in Handlers : \E i \in Idx :
        /\ pc[h] = "sm_wait"
        /\ h \in ready
        /\ executed[i].cmd.prod = h
        /\ executed[i].cmd.seq = nsub[h]
        /\ executed[i].out = "fault"

\* C5: after a command has faulted the simulation thread still serves the
\* queue: while it is between long operations and a command is pending or in
\* execution, a step of the consumer loop is enabled.
C5_FaultDoesNotStopLoop ==
    ( /\ \E i \in Idx : executed[i].out = "fault"
      /\ simpc \notin {"sb_lock", "sb_set", "sb_ka_lock", "sb_ka_set", "sb_unlock", "work"}
      /\ (Inject # <<>> \/ cur # NoCmd) )
    => ENABLED Drain

\* a command submitted after a faulted one has been executed after it
C5_Witness ==
    \E i, j \in Idx :
        /\ i < j
        /\ executed[i].out = "fault"
        /\ executed[j].out = "ok"
        /\ executed[i].cmd.prod = executed[j].cmd.prod
        /\ executed[i].cmd.seq < executed[j].cmd.seq


\* C6: no refresh poll issues its InjectAndWait while BusyState is Busy, taken
\* in the claim's favour as: g.busy is set and the SetBusy(true) call that set
\* it has returned.
C6_NoInjectWhileBusy ==
    [][ \A h \in Handlers :
          (pc[h] = "up_inject" /\ pc'[h] = "up_wait") => ~(busy /\ simpc = "work") ]_vars

\* the snapshot commands of h that are pending or in execution
OwnSnapshots(h) ==
    {i \in 1..Len(Inject) : Inject[i].prod = h /\ Inject[i].kind = "snapshot"}

\* C7: a refresh poll made between a SetBusy(true) and the next SetBusy(false)
\* injects nothing and has no snapshot command that could publish a field; a
\* poll made with BusyState Idle throughout has, once it returns, injected
\* exactly one command, and that command has published the full snapshot.
C7_RefreshGatedByBusy ==
    \A h \in Handlers :
        req[h] = "refresh" =>
            /\ phase[h] = "busy" =>
                   /\ ninj[h] = 0
                   /\ pc[h] \notin {"up_enable", "up_inject", "up_wait"}
                   /\ OwnSnapshots(h) = {}
                   /\ ~(cur.prod = h /\ cur.kind = "snapshot")
            /\ (phase[h] = "idle" /\ pc[h] = "done") =>
                   /\ ninj[h] = 1
                   /\ \E i \in Idx :
                          /\ executed[i].cmd.prod = h
                          /\ executed[i].cmd.seq = nsub[h]
                          /\ executed[i].cmd.kind = "snapshot"
                          /\ executed[i].wrote = SnapshotFields

\* one poll has returned from a Busy period without injecting, and another,
\* made after SetBusy(false), has returned with its snapshot published
C7_Witness ==
    \E h, g \in Handlers :
        /\ req[h] = "refresh" /\ pc[h] = "done" /\ phase[h] = "busy" /\ ninj[h] = 0
        /\ req[g] = "refresh" /\ pc[g] = "done" /\ phase[g] = "idle" /\ ninj[g] = 1

\* the simulation thread is between the first and the last field write of a
\* snapshot
MidSnapshot == cur.kind = "snapshot" /\ wrote # {} /\ rest # <<>>

\* the published solver fields all show one simulation-thread instant
SnapshotConsistent ==
    (cur.kind # "snapshot" /\ \E i \in Idx : executed[i].cmd.kind = "snapshot")
    => /\ \E n \in 0..NSteps :
              /\ elem["nsteps"] = Sprint(n)
              /\ \A f \in SolverFields : elem[f] = SolverValues(n, n)[f]
       /\ \A i \in Idx :
              executed[i].cmd.kind = "snapshot" => executed[i].wrote = SnapshotFields

\* C8: every snapshot is published by one command; between its first and its
\* last field write the simulation thread takes no solver step and neither
\* finishes nor starts a command; the published fields never mix two steps.
C8_SnapshotAtOneInstant ==
    [][ /\ MidSnapshot => /\ NSteps' = NSteps
                          /\ Time' = Time
                          /\ cur' = cur
                          /\ executed' = executed
        /\ SnapshotConsistent' ]_vars

\* a snapshot is half published while another command is pending and the
\* solver could still step
C8_Witness == MidSnapshot /\ Inject # <<>> /\ NSteps < MaxSteps /\ load.name = "poll"

\* C9: eventCacheBreaker never decreases, and when an event's increment is
\* done it is greater than it was when the event began.
C9_CacheBreakerGrows ==
    [][ /\ eventCacheBreaker' >= eventCacheBreaker
        /\ \A h \in Handlers :
               (pc[h] = "ev_write" /\ pc'[h] # "ev_write")
                   => eventCacheBreaker' > cb0[h] ]_vars

\* C10: two snapshots with the same renderQuant, renderComp and step count,
\* with an event received and handled between their display reads, publish
\* different display identifiers.
C10_DisplayChangesAfterEvent ==
    \A i, j \in Idx :
        ( /\ i < j
          /\ executed[i].cmd.kind = "snapshot"
          /\ executed[j].cmd.kind = "snapshot"
          /\ executed[i].shot.quant = executed[j].shot.quant
          /\ executed[i].shot.comp = executed[j].shot.comp
          /\ executed[i].shot.nsteps = executed[j].shot.nsteps
          /\ executed[j].shot.handled > executed[i].shot.started )
        => executed[i].shot.display # executed[j].shot.display

\* the positions in a command's call history of the calls to fn
CallsTo(c, fn) == {k \in 1..Len(c) : c[k].fn = fn}

\* C11: an Eval whose text compiles calls LogInput once with the formatted
\* tree, then tree.Eval once, and never LogOutput; an Eval whose text does not
\* compile calls LogOutput once with the text, a newline and the error, and
\* neither LogInput nor tree.Eval.
C11_EvalLogsThenRuns ==
    \A i \in Idx :
        executed[i].cmd.kind = "eval" =>
            LET code == executed[i].cmd.text
                c    == executed[i].calls
            IN  IF executed[i].out \in {"ok", "fault"}
                THEN /\ Compile(code).err = ""
                     /\ Cardinality(CallsTo(c, "LogInput")) = 1
                     /\ Cardinality(CallsTo(c, "tree.Eval")) = 1
                     /\ CallsTo(c, "LogOutput") = {}
                     /\ \A k \in CallsTo(c, "LogInput") :
                            /\ c[k].arg = Format(Compile(code).tree)
                            /\ \A m \in CallsTo(c, "tree.Eval") : k < m
                ELSE /\ Compile(code).err # ""
                     /\ Cardinality(CallsTo(c, "LogOutput")) = 1
                     /\ CallsTo(c, "LogInput") = {}
                     /\ CallsTo(c, "tree.Eval") = {}
                     /\ \A k \in CallsTo(c, "LogOutput") :
                            c[k].arg = code \o "\n" \o Compile(code).err

\* the console has run a text that compiles, one that does not, and one whose
\* evaluation panics
C11_Witness ==
    \E i, j, k \in Idx :
        /\ executed[i].cmd.text = "ok" /\ executed[i].out = "ok"
        /\ executed[j].cmd.text = "bad" /\ executed[j].out = "rejected"
        /\ executed[k].cmd.text = "panic" /\ executed[k].out = "fault"

\* the commands scheduled so far: pending, in execution or executed
Scheduled ==
    {Inject[i] : i \in 1..Len(Inject)} \cup {cur} \cup {executed[i].cmd : i \in Idx}

\* C12: a cli event whose handler is past its injection has scheduled at most
\* one command, and none for a text that does not compile: every command it
\* scheduled is an Eval of a text that compiles.
C12_CompileGatesScheduling ==
    \A h \in Handlers :
        (req[h] = "cli" /\ pc[h] \in {"cli_clear", "done"}) =>
            LET sent == {c \in Scheduled : c.prod = h /\ c.seq > nsub[h] - ninj[h]}
            IN  /\ Cardinality(sent) <= 1
                /\ \A c \in sent : c.kind = "eval" /\ Compile(c.text).err = ""

\* C13: with a wall clock that only advances, the stored heartbeat never
\* decreases, and each value KeepAlive returns is no earlier than the value
\* it returned before, whatever updateKeepAlive calls ran in between.
C13_KeepAliveMonotonic ==
    [][ /\ now' >= now
        /\ keepalive' >= keepalive
        /\ seen' >= seen
        /\ (wpc = "ka_read" /\ wpc' = "idle") => (seen' = keepalive /\ seen' <= now) ]_vars

\* KeepAlive is called again, after it returned a time later than the start,
\* while a refresh poll waits for keepalock to store a newer one
C13_Witness ==
    /\ wpc = "ka_read"
    /\ seen > 0
    /\ \E h \in Handlers : pc[h] = "up_ka_lock" /\ now >= seen

\* the threads that take g.mutex or keepalock
Threads == Handlers \cup {Sim, Watch}

\* C14: no thread takes keepalock while it holds g.mutex, or g.mutex while it
\* holds keepalock, and no thread sends to or receives from the command queue
\* while it holds either lock.
C14_NoNestedAcquisition ==
    [][ /\ \A t \in Threads : (keepalock' = t /\ keepalock # t) => mutex # t
        /\ \A t \in Threads : (mutex' = t /\ mutex # t) => keepalock # t
        /\ \A h \in Handlers : nsub'[h] # nsub[h] => (mutex # h /\ keepalock # h)
        /\ Len(Inject') < Len(Inject) => (mutex # Sim /\ keepalock # Sim) ]_vars

\* C15: under FairSpec every command a handler has submitted is eventually
\* executed to its end, and every handler waiting in InjectAndWait eventually
\* returns from it.
C15_EveryCommandServed ==
    \A h \in Handlers :
        /\ \A n \in 1..MaxLiveReqs : (nsub[h] >= n) ~> Finished(h, n)
        /\ (pc[h] \in {"sm_wait", "up_wait"}) ~> (pc[h] \notin {"sm_wait", "up_wait"})

\* a refresh poll waits in InjectAndWait behind another producer's command
\* while the solver can still step and a long operation can still begin
C15_Witness ==
    \E h \in Handlers :
        /\ pc[h] = "up_wait"
        /\ Len(Inject) >= 2
        /\ Inject[Len(Inject)].prod = h
        /\ simpc = "loop"
        /\ NSteps < MaxSteps
        /\ nlong < MaxLongOps

\* C16: outside a SetBusy call in progress the cli control is disabled exactly
\* when g.busy is set; every g.disableControls call is one step, so in each
\* state the call that last wrote the control has returned.
C16_CliDisabledWhileBusy == ~InSetBusy => (disabled.cli = busy)

\* C17: once a SetBusy call has returned, the heartbeat is no earlier than the
\* instant that call was made, both for SetBusy(true) and for SetBusy(false).
C17_SetBusyRefreshesHeartbeat == ~InSetBusy => keepalive >= sbAt

\* SetBusy(false) has returned from a call made after the clock advanced, and
\* the heartbeat shows the instant of that call
C17_Witness ==
    /\ simpc = "loop"
    /\ nlong > 0
    /\ ~busy
    /\ sbAt > 0
    /\ keepalive = sbAt

\* C18: the setmesh button is disabled until the first event; a mesh box edit
\* submits no command and enables the button; a command that calls SetMesh
\* is submitted only by a setmesh handler, as one InjectAndWait command, after
\* that handler has disabled the button; a setmesh event that has returned
\* has submitted exactly one command.
C18_MeshEditsBatched ==
    /\ [](nev = 0 => disabled.setmesh)
    /\ [][ \A h \in Handlers :
              /\ req[h] = "meshbox" => (nsub'[h] = nsub[h] /\ ninj'[h] = 0)
              /\ (pc[h] = "wm_enable" /\ pc'[h] # "wm_enable")
                     => (~disabled'.setmesh /\ Inject' = Inject)
              /\ (pc[h] # "sm_inject" /\ pc'[h] = "sm_inject")
                     => (pc[h] = "sm_disable" /\ disabled'.setmesh)
              /\ (nsub'[h] # nsub[h] /\ Inject'[Len(Inject')].kind = "setmesh")
                     => /\ req[h] = "setmesh"
                        /\ pc[h] = "sm_inject"
                        /\ Inject' = Append(Inject, Inject'[Len(Inject')])
                        /\ Inject'[Len(Inject')].wait
                        /\ nsub'[h] = nsub[h] + 1
              /\ (req[h] = "setmesh" /\ pc[h] # "done" /\ pc'[h] = "done")
                     => ninj'[h] = 1 ]_vars

\* a setmesh event has returned with its one command executed, after a mesh
\* box edit of the other handler thread that submitted nothing
C18_Witness ==
    \E h, g \in Handlers :
        /\ req[h] = "setmesh" /\ pc[h] = "done" /\ ninj[h] = 1 /\ Finished(h, nsub[h])
        /\ req[g] = "meshbox" /\ pc[g] = "done" /\ ninj[g] = 0
        /\ Cardinality({c \in Scheduled : c.kind = "setmesh"}) = 1

\* C19: when no mesh box or setmesh callback is under way, a setmeshwarn text
\* of "mesh up to date" goes with a disabled setmesh button.
C19_UpToDateMeansDisabled ==
    (\A h \in Handlers : req[h] \in {"meshbox", "setmesh"} => pc[h] = "done")
    => (elem["setmeshwarn"] = MeshUpToDate => disabled.setmesh)

\* C20: under FairSpec no handler waits in InjectAndWait while it holds
\* g.mutex or keepalock, and every thread that waits for g.mutex or for
\* keepalock eventually gets it: the refresh poll in updateKeepAlive and in
\* Busy, the simulation thread in SetBusy and in SetBusy's updateKeepAlive.
C20_NoDeadlock ==
    /\ [](\A h \in Handlers :
             pc[h] \in {"sm_wait", "up_wait"} => (mutex # h /\ keepalock # h))
    /\ \A h \in Handlers : (pc[h] = "up_ka_lock") ~> (pc[h] # "up_ka_lock")
    /\ \A h \in Handlers : (pc[h] = "up_busy_lock") ~> (pc[h] # "up_busy_lock")
    /\ (simpc = "sb_lock") ~> (simpc # "sb_lock")
    /\ (simpc = "sb_ka_lock") ~> (simpc # "sb_ka_lock")

\* SetBusy holds g.mutex and waits for keepalock, which a refresh poll holds,
\* while another refresh poll waits for g.mutex
C20_Witness ==
    \E h, g \in Handlers :
        /\ h # g
        /\ simpc = "sb_ka_lock" /\ mutex = Sim
        /\ pc[h] = "up_ka_set" /\ keepalock = h
        /\ pc[g] = "up_busy_lock"

====
